---- MODULE Spec2Model ----
(***************************************************************************)
(* Model of custom-bingo (src/bingo.py): the grid layout calculator        *)
(* BingoBoardPositioner and the card generator generate() with its worker  *)
(* processes mproc_generate_board.                                         *)
(*                                                                         *)
(* Python tuples and lists are 0-indexed, TLA+ sequences are 1-indexed:    *)
(* borders[0] of the source is borders[1] here, and so on.  Indices that   *)
(* the program itself computes (cell x, y, 1-D index, card number, free    *)
(* tile index) keep their 0-based values.                                  *)
(***************************************************************************)
EXTENDS Integers, Sequences, FiniteSets, TLC

VARIABLES
    positioner,   \* the BingoBoardPositioner object (or its construction outcome)
    query,        \* the last get_rect_position_* call and what it returned
    args,         \* the BingoGeneratorInfo handed to generate()
    pc,           \* position of the coordinator inside generate()
    raised,       \* the exception generate() ended with and the step that raised it
    proc_list,    \* the worker processes, in start order
    return_dict,  \* manager.dict(): card number -> image
    files,        \* the file system: saved path -> image
    loop_i,       \* the index i of the join/save loop
    ctor_args,    \* the arguments the positioner was constructed with
    free_space_index,  \* generate()'s local of that name
    env,          \* the machine: is arial.ttf installed, the directories at the start
    dirs,         \* the file system: the directories that exist
    manager       \* the Manager() process serving return_dict

vars == <<positioner, query, args, pc, raised, proc_list, return_dict, files,
          loop_i, ctor_args, free_space_index, env, dirs, manager>>

\* Python's None, for the optional tuples cell_dims and preferred_total_board_size
None == <<>>

----------------------------------------------------------------------------
(* Bounds of the model *)

MaxCount == 3
MaxOutline == 2
MaxBorder == 2
MaxCellDim == 2
MaxTarget == 12
MaxCards == 2
MaxBoardSize == 3

----------------------------------------------------------------------------
(* Arithmetic helpers *)

\* a division that rounds down where the source rounds up
CeilDivRoundingDown(a, b) ==
    IF b > 0 THEN a \div b ELSE (-a) \div (-b)

\* math.ceil(a / b) for integers a and b, b # 0
CeilDiv(a, b) ==
    IF b > 0 THEN -((-a) \div b) ELSE -(a \div (-b))

\* math.floor(a / b) for integers a >= 0 and b > 0
FloorDiv(a, b) == a \div b

----------------------------------------------------------------------------
(* BingoBoardPositioner *)

NoPositioner == [status |-> "none"]

\* the cell size of fit-to-target mode along one axis
FitCellDim(target, border_a, border_b, outline_width, count) ==
    CeilDiv(target - border_a - border_b - (outline_width * (count + 3)), count)

\* the content area with a single outline on the outer boundary
board_content_area_single_outline(outline_width, cell_counts, cell_dims) ==
    << (outline_width * 2) + (outline_width * (cell_counts[1] - 1))
          + (cell_dims[1] * cell_counts[1]),
       (outline_width * 2) + (outline_width * (cell_counts[2] - 1))
          + (cell_dims[2] * cell_counts[2]) >>

board_content_area_of(outline_width, cell_counts, cell_dims) ==
    << (outline_width * 4) + (outline_width * (cell_counts[1] - 1))
          + (cell_dims[1] * cell_counts[1]),
       (outline_width * 4) + (outline_width * (cell_counts[2] - 1))
          + (cell_dims[2] * cell_counts[2]) >>

\* the board area with the right and bottom borders forgotten
board_area_leading_borders(content_area, borders) ==
    << content_area[1] + borders[1], content_area[2] + borders[3] >>

board_area_of(content_area, borders) ==
    << content_area[1] + borders[1] + borders[2],
       content_area[2] + borders[3] + borders[4] >>

board_content_pos_of(content_area, borders) ==
    << <<borders[1], borders[3]>>,
       <<borders[1] + content_area[1] - 1, borders[3] + content_area[2] - 1>> >>

\* BingoBoardPositioner.__init__: cell_dims = None selects fit-to-target mode
BingoBoardPositioner(cell_counts, outline_width, borders, cell_dims, preferred) ==
    IF cell_dims = None /\ preferred = None
    THEN [status |-> "TypeError"]
    ELSE IF cell_dims = None /\ (cell_counts[1] = 0 \/ cell_counts[2] = 0)
    THEN [status |-> "ZeroDivisionError"]
    ELSE
      LET dims == IF cell_dims = None
                  THEN << FitCellDim(preferred[1], borders[1], borders[2],
                                     outline_width, cell_counts[1]),
                          FitCellDim(preferred[2], borders[3], borders[4],
                                     outline_width, cell_counts[2]) >>
                  ELSE cell_dims
          area == board_content_area_of(outline_width, cell_counts, dims)
      IN  [ status             |-> "built",
            cell_dims          |-> dims,
            outline_width      |-> outline_width,
            cell_counts        |-> cell_counts,
            borders            |-> borders,
            board_content_area |-> area,
            board_area         |-> board_area_of(area, borders),
            board_content_pos  |-> board_content_pos_of(area, borders) ]

\* the rectangle with its second corner one pixel too far
get_rect_position_exclusive_corner(p, x, y) ==
    LET x_pos_1 == p.borders[1] + (x * p.cell_dims[1])
                     + (p.outline_width * 2) + (x * p.outline_width)
        y_pos_1 == p.borders[3] + (y * p.cell_dims[2])
                     + (p.outline_width * 2) + (y * p.outline_width)
    IN  << <<x_pos_1, y_pos_1>>, <<x_pos_1 + p.cell_dims[1], y_pos_1 + p.cell_dims[2]>> >>

get_rect_position_for_index(p, x, y) ==
    LET x_pos_1 == p.borders[1] + (x * p.cell_dims[1])
                     + (p.outline_width * 2) + (x * p.outline_width)
        y_pos_1 == p.borders[3] + (y * p.cell_dims[2])
                     + (p.outline_width * 2) + (y * p.outline_width)
        x_pos_2 == (x_pos_1 + p.cell_dims[1]) - 1
        y_pos_2 == (y_pos_1 + p.cell_dims[2]) - 1
    IN  << <<x_pos_1, y_pos_1>>, <<x_pos_2, y_pos_2>> >>

\* the (x, y) a 1-D index is mapped to
index_to_xy(p, i) ==
    << i % p.cell_counts[1], FloorDiv(i, p.cell_counts[1]) >>

get_rect_position_for_1d_index(p, i) ==
    LET xy == index_to_xy(p, i)
    IN  get_rect_position_for_index(p, xy[1], xy[2])

----------------------------------------------------------------------------
(* The positioner used on its own: construct one, then query it *)

NoQuery == [kind |-> "none"]

CountVals == 0..MaxCount
OutlineVals == (-1)..MaxOutline
BorderVals == {0, MaxBorder}
CellDimVals == 0..MaxCellDim
TargetVals == {MaxTarget - 5, MaxTarget}

BorderInputs ==
    {<<l, r, t, b>> : l \in BorderVals, r \in BorderVals, t \in BorderVals, b \in BorderVals}
      \cup {<<-1, 0, 0, 0>>, <<0, -1, 0, 0>>, <<0, 0, -1, 0>>, <<0, 0, 0, -1>>}

\* the worked examples of the documentation, next to the small inputs
ExampleFixed == [cell_counts |-> <<5, 5>>, outline_width |-> 5,
                 borders |-> <<10, 10, 10, 10>>, cell_dims |-> <<90, 90>>,
                 preferred |-> None]
ExampleFit   == [cell_counts |-> <<5, 5>>, outline_width |-> 5,
                 borders |-> <<10, 10, 10, 10>>, cell_dims |-> None,
                 preferred |-> <<512, 512>>]

PositionerInputs ==
    [cell_counts : CountVals \X CountVals, outline_width : OutlineVals,
     borders : BorderInputs, cell_dims : CellDimVals \X CellDimVals,
     preferred : {None}]
    \cup
    [cell_counts : CountVals \X CountVals, outline_width : OutlineVals,
     borders : BorderInputs, cell_dims : {None},
     preferred : TargetVals \X TargetVals]
    \cup {ExampleFixed, ExampleFit}

\* an exception of generate(): its type and the step that raised it
Raise(type, step) == [type |-> type, step |-> step]
NoError == Raise("none", "none")

GenIdle ==
    /\ args = [status |-> "none"]
    /\ pc = "idle"
    /\ raised = NoError
    /\ env = [font_installed |-> TRUE, dirs |-> {}]
    /\ dirs = {}
    /\ manager = "none"
    /\ proc_list = <<>>
    /\ return_dict = <<>>
    /\ files = <<>>
    /\ loop_i = 0
    /\ free_space_index = -1

InitPos ==
    /\ positioner = NoPositioner
    /\ ctor_args = [status |-> "none"]
    /\ query = NoQuery
    /\ GenIdle

Construct ==
    /\ pc = "idle"
    /\ positioner = NoPositioner
    /\ \E in \in PositionerInputs :
          /\ positioner' = BingoBoardPositioner(in.cell_counts, in.outline_width,
                                                in.borders, in.cell_dims, in.preferred)
          /\ ctor_args' = in
    /\ UNCHANGED <<query, args, pc, raised, proc_list, return_dict, files, loop_i,
                   free_space_index, env, dirs,
                   manager>>

QueryIndex ==
    /\ pc = "idle"
    /\ positioner.status = "built"
    /\ \E x \in 0..(positioner.cell_counts[1] - 1), y \in 0..(positioner.cell_counts[2] - 1) :
          query' = [kind |-> "index", x |-> x, y |-> y,
                    rect |-> get_rect_position_for_index(positioner, x, y)]
    /\ UNCHANGED <<positioner, args, pc, raised, proc_list, return_dict, files, loop_i,
                   ctor_args, free_space_index, env, dirs,
                   manager>>

Query1d ==
    /\ pc = "idle"
    /\ positioner.status = "built"
    /\ \E i \in 0..(positioner.cell_counts[1] * positioner.cell_counts[2] - 1) :
          query' = [kind |-> "1d", i |-> i,
                    rect |-> get_rect_position_for_1d_index(positioner, i)]
    /\ UNCHANGED <<positioner, args, pc, raised, proc_list, return_dict, files, loop_i,
                   ctor_args, free_space_index, env, dirs,
                   manager>>

NextPos == Construct \/ QueryIndex \/ Query1d

SpecPos == InitPos /\ [][NextPos]_vars

----------------------------------------------------------------------------
(* Paths: a path is head/stem+ext, e.g. "out/card.jpg"; a trailing slash is *)
(* an empty last component                                                  *)

Path(head, stem, ext) == [head |-> head, stem |-> stem, ext |-> ext]

\* os.path.basename(p)
basename(p) == p.stem \o p.ext
\* os.path.splitext(p)[1]
splitext_ext(p) == p.ext

PathStr(p) == (IF p.head = "" THEN "" ELSE p.head \o "/") \o basename(p)

\* os.path.join(p, name) for a plain file name stem+ext
path_join(p, stem, ext) ==
    Path(IF basename(p) = "" THEN p.head ELSE PathStr(p), stem, ext)

----------------------------------------------------------------------------
(* generate(): validation *)

MinResolution == 400

total_cells_of(a) == a.board_size * a.board_size

\* the validation without its check of the borders
ValidateWithoutBorders(a) ==
    IF a.number_of_cards < 1 THEN "Number of cards must be 1 or more."
    ELSE IF a.board_size < 2 THEN "Board size must be 2 or more."
    ELSE IF (a.board_size % 2) = 0 /\ a.free_space /\ ~a.free_random
         THEN "Only odd numbers are supported for free spaces."
    ELSE IF a.image_resolution < MinResolution
         THEN "Resolution must be greater than 400."
    ELSE IF Len(a.input_board_contents) < total_cells_of(a)
         THEN "Input must have equal to or more values than cells."
    ELSE "ok"

\* lines 282-300: the message of the ValueError raised, or "ok"
Validate(a) ==
    IF a.number_of_cards < 1 THEN "Number of cards must be 1 or more."
    ELSE IF a.board_size < 2 THEN "Board size must be 2 or more."
    ELSE IF (a.board_size % 2) = 0 /\ a.free_space /\ ~a.free_random
         THEN "Only odd numbers are supported for free spaces."
    ELSE IF a.image_resolution < MinResolution
         THEN "Resolution must be greater than 400."
    ELSE IF Len(a.input_board_contents) < total_cells_of(a)
         THEN "Input must have equal to or more values than cells."
    ELSE IF \/ a.top_border_size < 0
            \/ a.left_border_size < 0
            \/ a.right_border_size < 0
            \/ a.bottom_border_size < 0
         THEN "Borders must be 0 or more."
    ELSE "ok"

\* lines 304-314: the positioner generate() builds
GeneratePositioner(a) ==
    BingoBoardPositioner(<<a.board_size, a.board_size>>, a.line_width,
                         <<a.left_border_size, a.right_border_size,
                           a.top_border_size, a.bottom_border_size>>,
                         None, <<a.image_resolution, a.image_resolution>>)

----------------------------------------------------------------------------
(* generate(): sampling and the free tile *)

Range(f) == {f[k] : k \in DOMAIN f}

Count(f, v) == Cardinality({k \in DOMAIN f : f[k] = v})

\* random.sample(pool, k): every sequence of k lines taken from k distinct
\* positions of the pool, in any order
random_sample(pool, k) ==
    {s \in [1..k -> Range(pool)] : \A v \in Range(pool) : Count(s, v) <= Count(pool, v)}

\* the free tile choice with a random index one past the last tile allowed
FreeSpaceIndexChoicesPastEnd(a, current) ==
    IF a.free_space
    THEN IF ~a.free_random
         THEN {FloorDiv(total_cells_of(a), 2)}
         ELSE 0..total_cells_of(a)
    ELSE {current}

\* lines 324-329: the values free_space_index can take in one loop iteration
FreeSpaceIndexChoices(a, current) ==
    IF a.free_space
    THEN IF ~a.free_random
         THEN {FloorDiv(total_cells_of(a), 2)}
         ELSE 0..(total_cells_of(a) - 1)      \* random.randint(0, total_cells - 1)
    ELSE {current}

BoardContent(tiles, free_index, font, chars) ==
    [tile_content_list |-> tiles, free_tile_index |-> free_index,
     font |-> font, characters_per_line |-> chars]

----------------------------------------------------------------------------------------------------------------------------------------
(* Texts: a text is the sequence of its characters, each a one-character    *)
(* string; a character outside ASCII goes by its code point.  No text holds *)
(* a hyphen, so the chunks of textwrap are runs of whitespace and words     *)

\* textwrap._whitespace, as far as a line of splitlines() can hold it: the
\* characters textwrap replaces by a space and splits chunks at
ascii_whitespace == {" ", "\t"}

\* the other characters str.isspace() holds of that a line of splitlines()
\* can hold: str.strip() removes them, textwrap does not split at them
unicode_whitespace ==
    {"U+001F", "U+00A0", "U+1680", "U+2000", "U+2001", "U+2002", "U+2003",
     "U+2004", "U+2005", "U+2006", "U+2007", "U+2008", "U+2009", "U+200A",
     "U+202F", "U+205F", "U+3000"}

FREE == <<"F", "R", "E", "E">>

\* TextWrapper.tabsize
tabsize == 8

\* str.expandtabs(tabsize), from column col on
RECURSIVE expandtabs(_, _)
expandtabs(text, col) ==
    IF text = <<>> THEN <<>>
    ELSE IF Head(text) = "\t"
    THEN LET n == tabsize - (col % tabsize)
         IN  [i \in 1..n |-> " "] \o expandtabs(Tail(text), col + n)
    ELSE <<Head(text)>> \o expandtabs(Tail(text), col + 1)

\* TextWrapper._munge_whitespace: tabs expanded, then ASCII whitespace -> " "
munge_whitespace(text) ==
    LET e == expandtabs(text, 0)
    IN  [i \in DOMAIN e |-> IF e[i] \in ascii_whitespace THEN " " ELSE e[i]]

\* the length of the run of characters at the head of a non-empty text that
\* are all ASCII whitespace, or all not
head_run(text) ==
    LET ws(i) == text[i] \in ascii_whitespace
    IN  CHOOSE n \in 1..Len(text) :
          /\ \A i \in 1..n : ws(i) = ws(1)
          /\ n = Len(text) \/ ws(n + 1) # ws(1)

\* TextWrapper._split: the chunks, runs of whitespace and words in turn
RECURSIVE split(_)
split(text) ==
    IF text = <<>> THEN <<>>
    ELSE <<SubSeq(text, 1, head_run(text))>>
           \o split(SubSeq(text, head_run(text) + 1, Len(text)))

\* chunk.strip() == ''
strips_to_empty(chunk) ==
    \A i \in DOMAIN chunk : chunk[i] \in ascii_whitespace \cup unicode_whitespace

\* the inner while of _wrap_chunks: how many chunks at the head fit in room
RECURSIVE fitting(_, _)
fitting(chunks, room) ==
    IF chunks = <<>> \/ Len(Head(chunks)) > room THEN 0
    ELSE 1 + fitting(Tail(chunks), room - Len(Head(chunks)))

\* ''.join(chunks)
RECURSIVE join(_)
join(chunks) == IF chunks = <<>> THEN <<>> ELSE Head(chunks) \o join(Tail(chunks))

\* TextWrapper._wrap_chunks for a width > 0, from the chunks left and the
\* lines so far; one round of its outer while per call
RECURSIVE wrap_chunks(_, _, _)
wrap_chunks(chunks, width, lines) ==
    IF chunks = <<>> THEN lines
    ELSE LET \* a whitespace chunk at the start of a line but the first is dropped
             c0 == IF strips_to_empty(Head(chunks)) /\ lines # <<>>
                   THEN Tail(chunks) ELSE chunks
             n == fitting(c0, width)
             cur1 == SubSeq(c0, 1, n)
             rest1 == SubSeq(c0, n + 1, Len(c0))
             \* _handle_long_word: a chunk too long for any line is broken
             long == rest1 # <<>> /\ Len(Head(rest1)) > width
             space_left == width - Len(join(cur1))
             cur2 == IF long
                     THEN Append(cur1, SubSeq(Head(rest1), 1, space_left))
                     ELSE cur1
             rest2 == IF long
                      THEN <<SubSeq(Head(rest1), space_left + 1, Len(Head(rest1)))>>
                             \o Tail(rest1)
                      ELSE rest1
             \* a whitespace chunk at the end of the line is dropped
             cur3 == IF cur2 # <<>> /\ strips_to_empty(cur2[Len(cur2)])
                     THEN SubSeq(cur2, 1, Len(cur2) - 1) ELSE cur2
         IN  wrap_chunks(rest2, width,
                         IF cur3 # <<>> THEN Append(lines, join(cur3)) ELSE lines)

\* textwrap.wrap(text, width) for a width > 0: the lines
wrap(text, width) == wrap_chunks(split(munge_whitespace(text)), width, <<>>)

----------------
(* mproc_generate_board *)

\* lines 386-390: the text drawn in tile t (0-based)
TileText(content, t) ==
    IF t = content.free_tile_index THEN FREE ELSE content.tile_content_list[t + 1]

\* lines 385-395: textwrap.wrap rejects a width <= 0, and lines[0] fails when
\* it returns no line
TextOutcome(text, width) ==
    IF width <= 0 THEN "ValueError"
    ELSE IF wrap(text, width) = <<>> THEN "IndexError"
    ELSE "ok"

TileIndices(content) == 0..(Len(content.tile_content_list) - 1)

\* the outcome of the text handling of the whole tile loop: that of the first
\* tile that fails, or "ok"
TextLoopOutcome(content) ==
    LET bad == {t \in TileIndices(content) :
                  TextOutcome(TileText(content, t), content.characters_per_line) # "ok"}
    IN  IF bad = {} THEN "ok"
        ELSE LET first == CHOOSE t \in bad : \A u \in bad : t <= u
             IN  TextOutcome(TileText(content, first), content.characters_per_line)

Degenerate(rect) == rect[2][1] < rect[1][1] \/ rect[2][2] < rect[1][2]

\* drawing.rectangle refuses a rectangle whose second corner lies before its
\* first in the Pillow releases that check it, and draws nothing in the others
DrawOutcomes(p, content) ==
    IF \/ Degenerate(p.board_content_pos)
       \/ \E t \in TileIndices(content) : Degenerate(get_rect_position_for_1d_index(p, t))
    THEN {"ok", "ValueError"}
    ELSE {"ok"}

\* line 422: the store goes to the Manager process, and fails once that is
\* shut down, with an exception that depends on how far the shutdown has got:
\* the socket is gone (FileNotFoundError), or the connection breaks while it
\* is made (ConnectionResetError), while the image is sent (BrokenPipeError)
\* or while the answer is awaited (EOFError)
StoreOutcomes(mgr) ==
    IF mgr = "shutdown"
    THEN {"FileNotFoundError", "ConnectionResetError", "BrokenPipeError", "EOFError"}
    ELSE {"ok"}

\* how a worker can end: "ok" or the exception that kills it
WorkerOutcomes(p, content, mgr) ==
    UNION { IF d # "ok" THEN {d}
            ELSE IF TextLoopOutcome(content) # "ok" THEN {TextLoopOutcome(content)}
            ELSE StoreOutcomes(mgr) : d \in DrawOutcomes(p, content) }

\* the image a worker builds: canvas size, and per tile its rectangle, the
\* text handed to textwrap.wrap for it and the lines drawn
RenderImage(p, content) ==
    [size  |-> p.board_area,
     tiles |-> [k \in 1..Len(content.tile_content_list) |->
                  [pos   |-> get_rect_position_for_1d_index(p, k - 1),
                   text  |-> TileText(content, k - 1),
                   lines |-> wrap(TileText(content, k - 1),
                                  content.characters_per_line)]]]

----------------------------------------------------------------------------
(* generate(): inputs *)

CardCounts == 0..MaxCards
BoardSizes == 1..MaxBoardSize

A == <<"a">>
B == <<"b", " ", "c">>
Empty == <<>>
Whitespace == <<" ", "\t">>
Mixed == <<" ", "\t", "U+00A0">>

\* input files: too short for any board; enough for a 2x2 board: a line that
\* reads FREE among others, an empty line among others, lines of spaces and
\* tabs, lines of whitespace of both kinds; enough for a 3x3 board
PlainPool == <<A, A, A, A, A, A, A, A, A>>
WhitespacePool == <<Whitespace, Whitespace, Whitespace, Whitespace>>
MixedPool == <<Mixed, Mixed, Mixed, Mixed>>

Pools ==
    { <<A, B, A>>,
      <<B, B, FREE, B>>,
      <<A, A, Empty, A, A>>,
      WhitespacePool,
      MixedPool,
      PlainPool }

\* the defaults of the command line options of parse_input
DefaultSettings ==
    [image_resolution |-> 2048, font_size |-> 43, text_char_limit |-> 15,
     top_border_size |-> 10, left_border_size |-> 10,
     right_border_size |-> 10, bottom_border_size |-> 10,
     line_width |-> 5]

\* the settings of a run: the option values and the output path
WithOutput(st, path) ==
    [image_resolution |-> st.image_resolution, font_size |-> st.font_size,
     text_char_limit |-> st.text_char_limit,
     top_border_size |-> st.top_border_size, left_border_size |-> st.left_border_size,
     right_border_size |-> st.right_border_size,
     bottom_border_size |-> st.bottom_border_size,
     line_width |-> st.line_width, output_file_path |-> path]

BaseSettings == WithOutput(DefaultSettings, Path("", "card", ".jpg"))

\* the defaults, and the settings with one option off its default
Settings ==
    { BaseSettings,
      [BaseSettings EXCEPT !.image_resolution = MinResolution],
      [BaseSettings EXCEPT !.image_resolution = MinResolution - 1],
      [BaseSettings EXCEPT !.top_border_size = -1],
      [BaseSettings EXCEPT !.left_border_size = -1],
      [BaseSettings EXCEPT !.right_border_size = -1],
      [BaseSettings EXCEPT !.bottom_border_size = -1],
      [BaseSettings EXCEPT !.line_width = 500],
      [BaseSettings EXCEPT !.text_char_limit = 0],
      [BaseSettings EXCEPT !.font_size = 0],
      [BaseSettings EXCEPT !.output_file_path = Path("", "out", "")],
      [BaseSettings EXCEPT !.output_file_path = Path("out", "", "")] }

GeneratorInfo(pool, n, fs, fr, size, st) ==
    [ input_board_contents |-> pool,
      output_file_path     |-> st.output_file_path,
      number_of_cards      |-> n,
      free_space           |-> fs,
      free_random          |-> fr,
      board_size           |-> size,
      image_resolution     |-> st.image_resolution,
      font_size            |-> st.font_size,
      text_char_limit      |-> st.text_char_limit,
      top_border_size      |-> st.top_border_size,
      left_border_size     |-> st.left_border_size,
      right_border_size    |-> st.right_border_size,
      bottom_border_size   |-> st.bottom_border_size,
      line_width           |-> st.line_width ]

\* every input file with the default settings, and the mixed whitespace with
\* a text width of 1
ContentInputs ==
    { GeneratorInfo(pool, n, fs, fr, size, BaseSettings) :
        pool \in Pools, n \in CardCounts, fs \in BOOLEAN, fr \in BOOLEAN,
        size \in BoardSizes }
    \cup
    { GeneratorInfo(MixedPool, n, fs, fr, size,
                    [BaseSettings EXCEPT !.text_char_limit = 1]) :
        n \in CardCounts, fs \in BOOLEAN, fr \in BOOLEAN,
        size \in BoardSizes }

\* every setting with the plain input file and no free space
SettingInputs ==
    { GeneratorInfo(PlainPool, n, FALSE, FALSE, size, st) :
        n \in CardCounts, size \in BoardSizes, st \in Settings }

GeneratorInputs == ContentInputs \cup SettingInputs

\* the directory a path names when it is used as one
DirName(p) == IF basename(p) = "" THEN p.head ELSE PathStr(p)

\* the machines: with or without arial.ttf, and no directory at the start or,
\* for the inputs that vary the settings, the output path there as one
Environments(a) ==
    [font_installed : BOOLEAN,
     dirs : IF a \in SettingInputs
            THEN {{}, {DirName(a.output_file_path)}}
            ELSE {{}}]

Init ==
    /\ args \in GeneratorInputs
    /\ env \in Environments(args)
    /\ dirs = env.dirs
    /\ manager = "none"
    /\ pc = "start"
    /\ raised = NoError
    /\ positioner = NoPositioner
    /\ ctor_args = [status |-> "none"]
    /\ query = NoQuery
    /\ proc_list = <<>>
    /\ return_dict = <<>>
    /\ files = <<>>
    /\ loop_i = 0
    /\ free_space_index = -1

----------------------------------------------------------------------------
(* generate(): the coordinator's steps *)

\* lines 280-300
ValidateArgs ==
    /\ pc = "start"
    /\ IF Validate(args) = "ok"
       THEN pc' = "validated" /\ UNCHANGED raised
       ELSE pc' = "raised" /\ raised' = Raise("ValueError", "validate")
    /\ UNCHANGED <<positioner, query, args, proc_list, return_dict, files, loop_i,
                   ctor_args, free_space_index, env, dirs,
                   manager>>

\* line 302: ImageFont.truetype fails when arial.ttf is not installed
\* (OSError) and for a size <= 0 (ValueError or OSError, by Pillow release)
FontOutcomes(a, e) ==
    (IF e.font_installed THEN {} ELSE {"OSError"})
      \cup (IF a.font_size <= 0 THEN {"ValueError", "OSError"} ELSE {})
      \cup (IF e.font_installed /\ a.font_size > 0 THEN {"ok"} ELSE {})

\* line 302
LoadFont ==
    /\ pc = "validated"
    /\ \E outcome \in FontOutcomes(args, env) :
         IF outcome = "ok"
         THEN pc' = "font" /\ UNCHANGED raised
         ELSE pc' = "raised" /\ raised' = Raise(outcome, "font")
    /\ UNCHANGED <<positioner, query, args, proc_list, return_dict, files, loop_i,
                   ctor_args, free_space_index, env, dirs,
                   manager>>

\* lines 304-319; a number_of_cards of 0 cannot get here, so the loop runs
BuildPositioner ==
    /\ pc = "font"
    /\ LET p == GeneratePositioner(args)
       IN  IF p.status = "built"
           THEN /\ positioner' = p
                /\ pc' = "spawn"
                /\ manager' = "started"
                /\ free_space_index' = -1
                /\ UNCHANGED raised
           ELSE /\ raised' = Raise(p.status, "positioner")
                /\ pc' = "raised"
                /\ UNCHANGED <<positioner, free_space_index, manager>>
    /\ UNCHANGED <<query, args, proc_list, return_dict, files, loop_i, ctor_args, env, dirs>>

\* lines 321-346: one iteration of the first loop, for card b
StartWorker ==
    /\ pc = "spawn"
    /\ LET b == Len(proc_list)
       IN  /\ b < args.number_of_cards
           /\ \E cells_text \in random_sample(args.input_board_contents, total_cells_of(args)),
                 idx \in FreeSpaceIndexChoices(args, free_space_index) :
                 /\ free_space_index' = idx
                 /\ proc_list' = Append(proc_list,
                        [content  |-> BoardContent(cells_text, idx, args.font_size,
                                                   args.text_char_limit),
                         proc_num |-> b,
                         state    |-> "running"])
           /\ pc' = IF b + 1 < args.number_of_cards THEN "spawn" ELSE "join"
    /\ UNCHANGED <<positioner, query, args, raised, return_dict, files, loop_i, ctor_args, env, dirs,
                   manager>>

\* a join that does not wait for the worker
JoinWorkerWithoutWaiting ==
    /\ pc = "join"
    /\ pc' = "save"
    /\ UNCHANGED <<positioner, query, args, raised, proc_list, return_dict, files, loop_i,
                   ctor_args, free_space_index, env, dirs,
                   manager>>

\* line 349: proc_list[i].join() returns once worker i has ended, however it ended
JoinWorker ==
    /\ pc = "join"
    /\ proc_list[loop_i + 1].state # "running"
    /\ pc' = "save"
    /\ UNCHANGED <<positioner, query, args, raised, proc_list, return_dict, files, loop_i,
                   ctor_args, free_space_index, env, dirs,
                   manager>>

\* lines 350-355: the path of the single card
SinglePath(path) ==
    IF basename(path) = "" \/ splitext_ext(path) = ""
    THEN path_join(path, "board", ".jpg")
    ELSE path

\* lines 359-364: the path of card i among several
NumberedPath(path, i) == path_join(path, "board__" \o ToString(i), ".jpg")

\* the path the save of card i goes to
SavePath(a, i) ==
    IF a.number_of_cards = 1
    THEN SinglePath(a.output_file_path)
    ELSE NumberedPath(a.output_file_path, i)

\* os.path.exists(path)
path_exists(path) == DirName(path) \in dirs \/ DirName(path) \in DOMAIN files

\* lines 359-360: the directories after the makedirs of the several-cards branch
DirsAfterMakedirs(a) ==
    IF a.number_of_cards = 1 \/ path_exists(a.output_file_path)
    THEN dirs
    ELSE dirs \cup {DirName(a.output_file_path)}

\* Image.save opens the file for writing: the path must not name a directory,
\* and its directory has to exist (the working directory, head "", always does)
SaveOutcome(target, directories) ==
    IF PathStr(target) \in directories THEN "IsADirectoryError"
    ELSE IF target.head # "" /\ target.head \notin directories THEN "FileNotFoundError"
    ELSE "ok"

\* lines 350-364, and the loop's step to the next i
SaveCard ==
    /\ pc = "save"
    /\ LET target == SavePath(args, loop_i)
       IN  /\ args' = IF args.number_of_cards = 1
                      THEN [args EXCEPT !.output_file_path = target]
                      ELSE args
           /\ dirs' = DirsAfterMakedirs(args)
           /\ IF loop_i \notin DOMAIN return_dict
              THEN /\ raised' = Raise("KeyError", "save")
                   /\ pc' = "raised"
                   /\ UNCHANGED <<files, loop_i>>
              ELSE IF SaveOutcome(target, dirs') # "ok"
              THEN /\ raised' = Raise(SaveOutcome(target, dirs'), "save")
                   /\ pc' = "raised"
                   /\ UNCHANGED <<files, loop_i>>
              ELSE /\ files' = [f \in (DOMAIN files) \cup {PathStr(target)} |->
                                   IF f = PathStr(target) THEN return_dict[loop_i]
                                   ELSE files[f]]
                   /\ loop_i' = loop_i + 1
                   /\ pc' = IF loop_i + 1 < Len(proc_list) THEN "join" ELSE "done"
                   /\ UNCHANGED raised
    /\ UNCHANGED <<positioner, query, proc_list, return_dict, ctor_args, free_space_index,
                   env, manager>>

----------------------------------------------------------------------------
(* mproc_generate_board: a worker's run, whose only effect outside the worker *)
(* is the store into return_dict at line 422                                  *)

WorkerWrite(n, img) ==
    [k \in (DOMAIN return_dict) \cup {n} |-> IF k = n THEN img ELSE return_dict[k]]

WorkerRun(w) ==
    /\ proc_list[w].state = "running"
    /\ \E outcome \in WorkerOutcomes(positioner, proc_list[w].content, manager) :
         IF outcome = "ok"
         THEN /\ return_dict' = WorkerWrite(proc_list[w].proc_num,
                                            RenderImage(positioner, proc_list[w].content))
              /\ proc_list' = [proc_list EXCEPT ![w].state = "done"]
         ELSE /\ proc_list' = [proc_list EXCEPT ![w].state = outcome]
              /\ UNCHANGED return_dict
    /\ UNCHANGED <<positioner, query, args, pc, raised, files, loop_i, ctor_args,
                   free_space_index, env, dirs,
                   manager>>

Worker == \E w \in 1..Len(proc_list) : WorkerRun(w)

\* generate() has returned or raised after line 317: the Manager is shut down
\* when its last reference goes or the interpreter exits, while the workers
\* not yet joined run on
ShutdownManager ==
    /\ pc \in {"done", "raised"}
    /\ manager = "started"
    /\ manager' = "shutdown"
    /\ UNCHANGED <<positioner, query, args, pc, raised, proc_list, return_dict, files,
                   loop_i, ctor_args, free_space_index, env, dirs>>

Next ==
    \/ ValidateArgs
    \/ LoadFont
    \/ BuildPositioner
    \/ StartWorker
    \/ JoinWorker
    \/ SaveCard
    \/ Worker
    \/ ShutdownManager

Spec == Init /\ [][Next]_vars

----------------------------------------------------------------------------
(* Vocabulary of the properties *)

GridX(p) == 0..(p.cell_counts[1] - 1)
GridY(p) == 0..(p.cell_counts[2] - 1)

\* a layout the documentation calls valid
ValidLayout(p) ==
    /\ p.status = "built"
    /\ p.cell_counts[1] > 0 /\ p.cell_counts[2] > 0
    /\ p.outline_width >= 0
    /\ \A k \in 1..4 : p.borders[k] >= 0
    /\ p.cell_dims[1] >= 1 /\ p.cell_dims[2] >= 1

\* two rectangles with inclusive corners share a pixel
Overlap(r, s) ==
    /\ r[1][1] <= s[2][1] /\ s[1][1] <= r[2][1]
    /\ r[1][2] <= s[2][2] /\ s[1][2] <= r[2][2]

----------------------------------------------------------------------------
(* Properties of the positioner, under SpecPos *)

\* C1: on a valid layout the cell rectangles are pairwise non-overlapping
\* (inclusive corners), the left edge of cell (x+1, y) lies strictly right of
\* the right edge of cell (x, y), and the top edge of cell (x, y+1) strictly
\* below the bottom edge of cell (x, y).
C1_NonOverlappingMonotone ==
    ValidLayout(positioner) =>
      \A x \in GridX(positioner), y \in GridY(positioner) :
        LET r == get_rect_position_for_index(positioner, x, y)
        IN  /\ (x + 1) \in GridX(positioner) =>
                 get_rect_position_for_index(positioner, x + 1, y)[1][1] > r[2][1]
            /\ (y + 1) \in GridY(positioner) =>
                 get_rect_position_for_index(positioner, x, y + 1)[1][2] > r[2][2]
            /\ \A u \in GridX(positioner), v \in GridY(positioner) :
                 <<u, v>> # <<x, y>> =>
                   ~Overlap(r, get_rect_position_for_index(positioner, u, v))

C1_Witness ==
    /\ ValidLayout(positioner)
    /\ positioner.outline_width = 0
    /\ query.kind = "index" /\ query.x = 1 /\ query.y = 1
    /\ query.rect[1][1] = get_rect_position_for_index(positioner, 0, 1)[2][1] + 1
    /\ query.rect[1][2] = get_rect_position_for_index(positioner, 1, 0)[2][2] + 1

\* C2: on a valid layout every cell rectangle lies inside the board_content_pos
\* region, the outermost cells keep exactly 2 * outline_width pixels from that
\* region's edge on all four sides, and the region lies inside the canvas
\* [0, board_area - 1] on both axes.
C2_CellsInsideContent ==
    ValidLayout(positioner) =>
      LET p == positioner
          lo == p.board_content_pos[1]
          hi == p.board_content_pos[2]
      IN  /\ \A x \in GridX(p), y \in GridY(p) :
               LET r == get_rect_position_for_index(p, x, y)
               IN  /\ lo[1] <= r[1][1] /\ r[2][1] <= hi[1]
                   /\ lo[2] <= r[1][2] /\ r[2][2] <= hi[2]
                   /\ x = 0 => r[1][1] - lo[1] = 2 * p.outline_width
                   /\ y = 0 => r[1][2] - lo[2] = 2 * p.outline_width
                   /\ x = p.cell_counts[1] - 1 => hi[1] - r[2][1] = 2 * p.outline_width
                   /\ y = p.cell_counts[2] - 1 => hi[2] - r[2][2] = 2 * p.outline_width
          /\ 0 <= lo[1] /\ lo[1] <= hi[1] /\ hi[1] <= p.board_area[1] - 1
          /\ 0 <= lo[2] /\ lo[2] <= hi[2] /\ hi[2] <= p.board_area[2] - 1

C2_Witness ==
    /\ ValidLayout(positioner)
    /\ positioner.outline_width > 0
    /\ positioner.borders[1] > 0 /\ positioner.borders[4] > 0
    /\ positioner.cell_counts[1] >= 2 /\ positioner.cell_counts[2] >= 2
    /\ query.kind = "index"
    /\ query.x = positioner.cell_counts[1] - 1 /\ query.y = positioner.cell_counts[2] - 1
    /\ positioner.board_content_pos[2][1] - query.rect[2][1] = 2 * positioner.outline_width

\* c is ceil(a / n), said without the model's own division
IsCeilOf(c, a, n) == c * n >= a /\ (c - 1) * n < a

\* C3: in fit-to-target mode with positive cell counts and non-negative outline
\* and borders, the cell size is ceil((target - the two borders -
\* outline * (count + 3)) / count) on each axis and board_area is at least the
\* target on each axis; the documented example (target 512, 5 cells, outline 5,
\* borders 10) gives cells of 91 pixels.
C3_FitToTargetCoversTarget ==
    ( /\ positioner.status = "built"
      /\ ctor_args.cell_dims = None
      /\ positioner.cell_counts[1] > 0 /\ positioner.cell_counts[2] > 0
      /\ positioner.outline_width >= 0
      /\ \A k \in 1..4 : positioner.borders[k] >= 0 )
    => LET p == positioner
           t == ctor_args.preferred
       IN  /\ IsCeilOf(p.cell_dims[1],
                       t[1] - p.borders[1] - p.borders[2]
                         - p.outline_width * (p.cell_counts[1] + 3),
                       p.cell_counts[1])
           /\ IsCeilOf(p.cell_dims[2],
                       t[2] - p.borders[3] - p.borders[4]
                         - p.outline_width * (p.cell_counts[2] + 3),
                       p.cell_counts[2])
           /\ p.board_area[1] >= t[1]
           /\ p.board_area[2] >= t[2]
           /\ ctor_args = ExampleFit => p.cell_dims = <<91, 91>>

C3_Witness ==
    /\ positioner.status = "built"
    /\ ctor_args = ExampleFit
    /\ positioner.cell_dims = <<91, 91>>
    /\ positioner.board_area[1] > 512

\* C7: the 1-D query returns the rectangle of cell (i % cx, i // cx) for every
\* i in [0, cx*cy), the index mapping is a bijection onto the grid, and distinct
\* 1-D indices yield distinct rectangles.  Stated for the positioners with a
\* non-negative outline and non-negative borders only, whatever their cell size.
C7_Index1dBijection ==
    (positioner.status = "built" /\ positioner.cell_counts[1] > 0
       /\ positioner.cell_counts[2] > 0
       /\ positioner.outline_width >= 0
       /\ \A k \in 1..4 : positioner.borders[k] >= 0)
    => LET p == positioner
           n == p.cell_counts[1] * p.cell_counts[2]
       IN  /\ \A i \in 0..(n - 1) :
                 /\ get_rect_position_for_1d_index(p, i)
                      = get_rect_position_for_index(p, i % p.cell_counts[1],
                                                    i \div p.cell_counts[1])
                 /\ index_to_xy(p, i) \in GridX(p) \X GridY(p)
                 /\ index_to_xy(p, i)[2] * p.cell_counts[1] + index_to_xy(p, i)[1] = i
           /\ \A x \in GridX(p), y \in GridY(p) :
                 index_to_xy(p, y * p.cell_counts[1] + x) = <<x, y>>
           /\ \A i \in 0..(n - 1), j \in 0..(n - 1) :
                 i # j => get_rect_position_for_1d_index(p, i)
                            # get_rect_position_for_1d_index(p, j)

\* C8 as documented: for 5x5 cells of 90x90, outline 5, borders 10 the content
\* area is 490 per axis, the board area 510x510, cell (0,0) is
\* [(20,20),(109,109)] and cell (4,4) is [(460,460),(549,549)].
C8_ExampleAsDocumented ==
    (ctor_args = ExampleFixed /\ positioner.status = "built") =>
      /\ positioner.board_content_area = <<490, 490>>
      /\ positioner.board_area = <<510, 510>>
      /\ get_rect_position_for_index(positioner, 0, 0) = << <<20, 20>>, <<109, 109>> >>
      /\ get_rect_position_for_index(positioner, 4, 4) = << <<460, 460>>, <<549, 549>> >>

\* C8 amended: same configuration, content area 490 per axis, board area
\* 510x510, cell (0,0) is [(20,20),(109,109)] and cell (4,4) is
\* [(400,400),(489,489)].
C8_ExampleAmended ==
    (ctor_args = ExampleFixed /\ positioner.status = "built") =>
      /\ positioner.board_content_area = <<490, 490>>
      /\ positioner.board_area = <<510, 510>>
      /\ get_rect_position_for_index(positioner, 0, 0) = << <<20, 20>>, <<109, 109>> >>
      /\ get_rect_position_for_index(positioner, 4, 4) = << <<400, 400>>, <<489, 489>> >>
      /\ (query.kind = "index" /\ query.x = 4 /\ query.y = 4) =>
            query.rect = << <<400, 400>>, <<489, 489>> >>

C8_Witness ==
    /\ ctor_args = ExampleFixed
    /\ positioner.status = "built"
    /\ query.kind = "index" /\ query.x = 4 /\ query.y = 4
    /\ query.rect = << <<400, 400>>, <<489, 489>> >>

----------------------------------------------------------------------------
(* Properties of generate(), under Spec *)

Workers == 1..Len(proc_list)

\* the run of generate() has ended after starting its workers
RunEnded == pc = "done" \/ (pc = "raised" /\ raised.step = "save")

\* C4: invalid layout input is rejected when the positioner is constructed:
\* no positioner exists whose cells are less than 1 pixel wide or high (or that
\* has no cells, a negative outline or a negative border), and no worker is
\* started on such a layout.
C4_InvalidLayoutRejected ==
    /\ positioner.status = "built" => ValidLayout(positioner)
    /\ proc_list # <<>> => ValidLayout(positioner)

\* C5 as documented: the coordinator writes files only once all N workers have
\* completed (no file exists while some worker is still running), and files are
\* written in increasing index order 0..N-1.
C5_SaveAfterAllWorkers ==
    /\ files # <<>> => \A w \in Workers : proc_list[w].state # "running"
    /\ DOMAIN files = {PathStr(SavePath(args, i)) : i \in 0..(loop_i - 1)}

\* C5 amended: file i is saved only after all N workers were started and
\* worker i itself has ended (workers of later cards may still be running), and
\* files are written in increasing index order: the files present are exactly
\* those of cards 0..i-1 when card i is next.
C5_SaveAfterOwnWorker ==
    /\ pc = "save" =>
         /\ Len(proc_list) = args.number_of_cards
         /\ loop_i < Len(proc_list)
         /\ proc_list[loop_i + 1].state # "running"
    /\ \A i \in 0..(loop_i - 1) :
         /\ Len(proc_list) = args.number_of_cards
         /\ proc_list[i + 1].state # "running"
    /\ DOMAIN files = {PathStr(SavePath(args, i)) : i \in 0..(loop_i - 1)}

C5_Witness ==
    /\ args.number_of_cards >= 2
    /\ loop_i = 1
    /\ PathStr(SavePath(args, 0)) \in DOMAIN files
    /\ proc_list[2].state = "running"

\* the validation failures the documentation lists
InvalidArguments(a) ==
    \/ a.number_of_cards < 1
    \/ a.board_size < 2
    \/ (a.board_size % 2 = 0 /\ a.free_space /\ ~a.free_random)
    \/ a.image_resolution < 400
    \/ Len(a.input_board_contents) < a.board_size * a.board_size
    \/ \E b \in {a.top_border_size, a.left_border_size,
                 a.right_border_size, a.bottom_border_size} : b < 0

\* C6: with invalid arguments generate() raises before any work: the run is
\* either not yet validated or has raised ValueError, and no positioner is
\* constructed, no worker started, no result slot written, no file saved and
\* no directory created.
C6_ValidationBeforeWork ==
    InvalidArguments(args) =>
      /\ pc \in {"start", "raised"}
      /\ pc = "raised" => raised = Raise("ValueError", "validate")
      /\ positioner = NoPositioner
      /\ proc_list = <<>>
      /\ return_dict = <<>>
      /\ files = <<>>
      /\ dirs = env.dirs
      /\ manager = "none"

C6_Witness ==
    /\ pc = "raised" /\ raised = Raise("ValueError", "validate")
    /\ args.number_of_cards >= 1 /\ args.board_size = 3
    /\ Len(args.input_board_contents) >= 9
    /\ args.image_resolution >= 400
    /\ args.bottom_border_size < 0
    /\ positioner = NoPositioner /\ proc_list = <<>>

\* C9: slot i of return_dict is written only by worker i, as its last step, with
\* the image of card i; when the coordinator is about to read slot i after the
\* join, the slot is populated; and a run that started its workers ends with
\* exactly one file per card (one file for N = 1, board__0.jpg ..
\* board__{N-1}.jpg for N > 1), file i holding the image of card i.  Stated for
\* the runs with a positive text width whose layout is valid, and whose single
\* card's path can be opened for writing, only.
C9_OneFilePerCard ==
  (/\ args.text_char_limit > 0
   /\ positioner.status = "built" => ValidLayout(positioner)
   /\ args.number_of_cards = 1 =>
         SaveOutcome(SinglePath(args.output_file_path), env.dirs) = "ok")
  =>
    /\ \A i \in DOMAIN return_dict :
         /\ (i + 1) \in Workers
         /\ proc_list[i + 1].state = "done"
         /\ return_dict[i] = RenderImage(positioner, proc_list[i + 1].content)
    /\ \A w \in Workers :
         proc_list[w].state = "done" => proc_list[w].proc_num \in DOMAIN return_dict
    /\ pc = "save" => loop_i \in DOMAIN return_dict
    /\ RunEnded =>
         /\ Cardinality(DOMAIN files) = args.number_of_cards
         /\ \A i \in 0..(args.number_of_cards - 1) :
              /\ PathStr(SavePath(args, i)) \in DOMAIN files
              /\ files[PathStr(SavePath(args, i))]
                   = RenderImage(positioner, proc_list[i + 1].content)

\* the tiles of an image that read FREE
TilesReadingFREE(img) == {k \in DOMAIN img.tiles : img.tiles[k].text = FREE}

\* C10 as documented: every card's free tile index is -1 when free_space is
\* unset, and then no tile of any card is rendered as FREE (whatever
\* free_random is); it is floor(N^2 / 2) when free_space is set and free_random
\* unset (N is odd then and the tile is the centre cell), and within
\* [0, N^2 - 1] when both are set; with free_space set exactly one tile of the
\* card reads FREE and the other N^2 - 1 tiles show their sampled text.
C10_OneTileReadsFREE ==
    \A w \in Workers :
      LET c == proc_list[w].content
          n == args.board_size
          i == proc_list[w].proc_num
      IN  /\ Len(c.tile_content_list) = n * n
          /\ ~args.free_space =>
               /\ c.free_tile_index = -1
               /\ i \in DOMAIN return_dict => TilesReadingFREE(return_dict[i]) = {}
          /\ (args.free_space /\ ~args.free_random) =>
               /\ n % 2 = 1
               /\ 2 * c.free_tile_index + 1 = n * n
               /\ index_to_xy(positioner, c.free_tile_index)
                    = <<(n - 1) \div 2, (n - 1) \div 2>>
          /\ (args.free_space /\ args.free_random) =>
               c.free_tile_index \in 0..(n * n - 1)
          /\ (args.free_space /\ i \in DOMAIN return_dict) =>
               /\ Cardinality(TilesReadingFREE(return_dict[i])) = 1
               /\ \A k \in (1..(n * n)) \ TilesReadingFREE(return_dict[i]) :
                    return_dict[i].tiles[k].text = c.tile_content_list[k]

\* C10 amended: every card's free tile index is -1 when free_space is unset,
\* and then every tile of the card shows its sampled text, none replaced by
\* FREE (whatever free_random is); it is floor(N^2 / 2) when free_space is set
\* and free_random unset (N is odd then and the tile is the centre cell), and
\* within [0, N^2 - 1] when both are set; with free_space set the tile at the
\* index, and only that one, has its text replaced by FREE, and the other
\* N^2 - 1 tiles show their sampled text, which may itself read FREE.
C10_FreeTileIndex ==
    \A w \in Workers :
      LET c == proc_list[w].content
          n == args.board_size
          i == proc_list[w].proc_num
      IN  /\ Len(c.tile_content_list) = n * n
          /\ ~args.free_space =>
               /\ c.free_tile_index = -1
               /\ i \in DOMAIN return_dict =>
                    \A k \in 1..(n * n) :
                      /\ return_dict[i].tiles[k].text = c.tile_content_list[k]
                      /\ return_dict[i].tiles[k].lines
                           = wrap(c.tile_content_list[k], c.characters_per_line)
          /\ (args.free_space /\ ~args.free_random) =>
               /\ n % 2 = 1
               /\ 2 * c.free_tile_index + 1 = n * n
               /\ index_to_xy(positioner, c.free_tile_index)
                    = <<(n - 1) \div 2, (n - 1) \div 2>>
          /\ (args.free_space /\ args.free_random) =>
               c.free_tile_index \in 0..(n * n - 1)
          /\ args.free_space =>
               /\ c.free_tile_index \in 0..(n * n - 1)
               /\ i \in DOMAIN return_dict =>
                    \A k \in 1..(n * n) :
                      LET shown == IF k - 1 = c.free_tile_index THEN FREE
                                   ELSE c.tile_content_list[k]
                      IN  /\ return_dict[i].tiles[k].text = shown
                          /\ return_dict[i].tiles[k].lines
                               = wrap(shown, c.characters_per_line)

\* a stored card with a free tile and, elsewhere, a sampled line reading FREE
C10_Witness ==
    /\ args.free_space /\ args.free_random /\ args.board_size = 2
    /\ 0 \in DOMAIN return_dict
    /\ proc_list[1].content.free_tile_index = 0
    /\ proc_list[1].content.tile_content_list[3] = FREE
    /\ return_dict[0].tiles[1].text = FREE
    /\ return_dict[0].tiles[3].text = FREE
    /\ return_dict[0].tiles[2].text = B

====
